---- MODULE Spec2Model ----
(***************************************************************************)
(* Model of the ONVIF Events service (class Events): the PullPoint         *)
(* subscription session and its polling loop, with the cached properties   *)
(* of the Device and Media services.                                       *)
(*                                                                         *)
(* One action is one run-to-completion segment of the JavaScript event     *)
(* loop: a public method called by the consumer up to its first pending    *)
(* await, or the arrival of a network reply (or timer) together with the   *)
(* continuation of the async function that awaited it, up to its next      *)
(* pending await.                                                          *)
(***************************************************************************)
EXTENDS Integers, Sequences, FiniteSets, Bags, TLC

VARIABLES
    shouldPoll,          \* Events.shouldPoll (isRunning)
    subscription,        \* Events.subscription (NoSub when undefined)
    terminationTime,     \* Events.terminationTime, local ms (NoTime when undefined)
    reconnectMs,         \* Events.reconnectMs, fixed point <<whole ms, fraction>>
    messageLimit,        \* Events.messageLimit
    observedCategories,  \* Events.observedCategories
    tasks,               \* bag of suspended async calls: loops, background and direct calls
    listeners,           \* EventEmitter: is a listener attached to 'event' / 'error'
    now,                 \* Date.now() of the client
    trace,               \* what the last segment did, in program order
    deviceNTP,           \* Device.#NTP (Undefined until fetched)
    deviceDNS,           \* Device.#DNS (Undefined until fetched)
    videoSources         \* Media.videoSources

\* the fields of the Device and Media objects
caches == <<deviceNTP, deviceDNS, videoSources>>

vars == <<shouldPoll, subscription, terminationTime, reconnectMs, messageLimit,
          observedCategories, tasks, listeners, now, trace, caches>>

----------------------------------------------------------------------------
(* Bounds of the model *)

MaxNow == 2        \* the client clock runs 0..MaxNow
MaxLoops == 1      \* runEventLoop activations alive at once
MaxBackground == 1 \* stopEventLoop unsubscribes in flight at once
MaxDirect == 1     \* consumer-invoked operations in flight at once
MaxVideoSources == 4 \* cached video sources beyond which no further fetch is explored

----------------------------------------------------------------------------
(* Program constants *)

MAX_RECONNECT_MS == 2 * 60 * 1000
DEFAULT_MESSAGE_LIMIT == 10
INITIAL_RECONNECT_MS == 10
RETRY_ERROR_CODES == {"ECONNREFUSED", "ECONNRESET", "ETIMEDOUT", "ENETUNREACH", "EHOSTUNREACH"}

NoSub == [addr |-> 0, sid |-> FALSE]
NoTime == -1

----------------------------------------------------------------------------
(* reconnectMs is a JavaScript number. Every value it takes is 10 * 1.5^k  *)
(* (k <= 23) or MAX_RECONNECT_MS, all exact in binary floating point; the  *)
(* model keeps them exact as <<whole, frac>> = whole + frac / 2^24.        *)

Frac == 2 ^ 24

Ms(n) == <<n, 0>>

LessMs(a, b) == a[1] < b[1] \/ (a[1] = b[1] /\ a[2] < b[2])

MinMs(a, b) == IF LessMs(a, b) THEN a ELSE b

\* v * 1.5
Times1_5(v) ==
    LET w == 3 * v[1]
        f == (3 * v[2] + (w % 2) * Frac) \div 2
    IN  <<(w \div 2) + (f \div Frac), f % Frac>>

----------------------------------------------------------------------------
(* Inputs *)

\* subscriptions the device hands out: reference address and whether the
\* reply carried referenceParameters.subscriptionId
DeviceSubs == {[addr |-> 1, sid |-> FALSE], [addr |-> 2, sid |-> TRUE]}

\* device clock minus client clock, and granted lifetime, in clock units
Skews == {-1, 1}
Leases == {1}

\* failures of onvif.request: error codes of the transport ("" = an Error
\* without code, e.g. `HTTP error! status: 401`)
Failures == {"ECONNREFUSED", ""}

\* options.messageLimit of startEventLoop; 0 = not given
LimitOptions == {0, 3}

\* the options of startEventLoop (EventLoopOptions)
LoopOptions == [messageLimit : LimitOptions, autoRenew : BOOLEAN]
DefaultOptions == [messageLimit |-> 0, autoRenew |-> TRUE]

\* for the deadline arithmetic alone: readings of the client clock, readings of
\* the device clock and granted lifetimes, in ms
LocalNows == {0, 5000, 10000, 25000, 60000}
DeviceTimes == {0, 5000, 10000, 20000, 60000}
Lifetimes == {0, 1000, 60000, 120000, 600000}

\* notification topics, as sequences of fragments of the topic string
MotionTopic == <<"RuleEngine", "/", "Cell", "Motion", "Detector">>
OtherTopic == <<"Monitoring", "/", "Heartbeat">>
NoTopic == <<>>
Motion == [topic |-> MotionTopic]
Other == [topic |-> OtherTopic]

\* topic strings handed to categorizeEvent: pieces that hit the patterns of
\* each group in some spelling, two that hit none, alone and in pairs
TopicPieces ==
    {<<"Face", "Detect", "ion">>, <<"face", "detect">>, <<"FACE", "DETECT">>,
     <<"People", "Detect">>, <<"Human", "Detect">>, <<"Vehicle", "Detect">>,
     <<"Pet", "Detect">>, <<"License", "Plate">>, <<"ANPR">>,
     <<"Cell", "Motion">>, <<"Motion", "Alarm">>, <<"Tamper">>,
     <<"Global", "Scene", "Change">>, <<"Audio", "Analytics">>,
     <<"Trigger", "/", "Digital", "Input">>, <<"Relay", "Output">>,
     <<"PTZ", "Controller">>, <<"Recording">>, <<"Video", "Analytics">>,
     <<"analytics">>, <<"ANALYTICS">>, <<"Device", "/">>,
     <<"Monitoring">>, <<"Heartbeat">>}
Topics == TopicPieces \cup {a \o <<"/">> \o b : a \in TopicPieces, b \in TopicPieces}

\* values of a simpleItem, by JavaScript type and text
Bool(text) == [type |-> "boolean", text |-> text]
Str(text) == [type |-> "string", text |-> text]
Num(text) == [type |-> "number", text |-> text]
ItemValues ==
    {Bool("true"), Bool("false"), Str("true"), Str("1"), Str("0"), Str("TRUE"), Num("1")}

\* names of a simpleItem; "" = no name
ItemNames == {"IsMotion", "State", "STATE", "Rule", ""}
SimpleItems == [name : ItemNames, value : ItemValues]

\* message.data.simpleItem as an array: none, one item or two
ItemLists == {<<>>} \cup {<<a>> : a \in SimpleItems}
                 \cup {<<a, b>> : a \in SimpleItems, b \in SimpleItems}

\* messages handed to parseMotionEvent
ParsedMessages == [topic : {MotionTopic, OtherTopic, NoTopic}, data : ItemLists]

\* properties.topicSet handed to the static inference: one advertised topic,
\* or none
TopicSets ==
    {NoTopic, MotionTopic, OtherTopic,
     <<"RuleEngine", "/", "My", "Rule", "Detector", "/", "People", "Detect">>,
     <<"RuleEngine", "/", "My", "Rule", "Detector", "/", "Motion">>,
     <<"Audio", "Source", "/", "Sound", "Detect">>,
     <<"Audio", "Analytics", "/", "Sound">>,
     <<"Video", "Analytics", "/", "Face", "Detect", "ion">>,
     <<"RuleEngine", "/", "Vehicle", "Detect">>,
     <<"RuleEngine", "/", "Pet", "Detect">>,
     <<"RuleEngine", "/", "License", "Plate">>,
     <<"Device", "/", "Trigger", "/", "Relay">>}
EventPropertiesSet == [topicSet : TopicSets]

\* observed categories handed to getAllSupportedDetectionTypes: any list of
\* at most three of these, repetitions included
ObservedLists ==
    LET C == {"motion", "face", "tamper"}
    IN  {<<>>} \cup {<<a>> : a \in C} \cup {<<a, b>> : a \in C, b \in C}
               \cup {<<a, b, c>> : a \in C, b \in C, c \in C}

\* the credentials of the Onvif object ("" = not given)
OnvifObjects == [username : {"", "admin"}, password : {"", "secret"}]

\* subscriptions a follow-up request can be built for
HeldSubscriptions == [addr : {1, 2, 3, 4, 5}, sid : BOOLEAN]

\* notificationMessage of a pull reply, normalised to an array
PullResults == {<<>>, <<Motion>>, <<Motion, Other>>, <<Other, Motion>>}

----------------------------------------------------------------------------
(* categorizeEvent: substring tests on the lower-cased topic, in order *)

Lower(f) ==
    CASE f = "RuleEngine" -> "ruleengine"
      [] f = "Cell" -> "cell"
      [] f = "Motion" -> "motion"
      [] f = "Detector" -> "detector"
      [] f = "Monitoring" -> "monitoring"
      [] f = "Heartbeat" -> "heartbeat"
      [] f = "Face" -> "face"
      [] f = "FACE" -> "face"
      [] f = "Detect" -> "detect"
      [] f = "DETECT" -> "detect"
      [] f = "People" -> "people"
      [] f = "Human" -> "human"
      [] f = "Vehicle" -> "vehicle"
      [] f = "Pet" -> "pet"
      [] f = "License" -> "license"
      [] f = "Plate" -> "plate"
      [] f = "ANPR" -> "anpr"
      [] f = "Alarm" -> "alarm"
      [] f = "Tamper" -> "tamper"
      [] f = "Global" -> "global"
      [] f = "Scene" -> "scene"
      [] f = "Change" -> "change"
      [] f = "Audio" -> "audio"
      [] f = "Analytics" -> "analytics"
      [] f = "ANALYTICS" -> "analytics"
      [] f = "Trigger" -> "trigger"
      [] f = "Digital" -> "digital"
      [] f = "Input" -> "input"
      [] f = "Relay" -> "relay"
      [] f = "Output" -> "output"
      [] f = "PTZ" -> "ptz"
      [] f = "Controller" -> "controller"
      [] f = "Recording" -> "recording"
      [] f = "Video" -> "video"
      [] f = "Device" -> "device"
      [] f = "IsMotion" -> "ismotion"
      [] f = "State" -> "state"
      [] f = "STATE" -> "state"
      [] f = "Rule" -> "rule"
      [] f = "My" -> "my"
      [] f = "Sound" -> "sound"
      [] f = "Source" -> "source"
      [] OTHER -> f

ToLowerCase(topic) == [i \in DOMAIN topic |-> Lower(topic[i])]

Includes(s, p) ==
    \E i \in 0..(Len(s) - Len(p)) : SubSeq(s, i + 1, i + Len(p)) = p

IncludesAny(s, ps) == \E p \in ps : Includes(s, p)

\* mutant of categorizeEvent: the generic groups are tested first
categorizeEvent_GenericFirst(topic) ==
    LET t == ToLowerCase(topic)
    IN  IF IncludesAny(t, {<<"video", "analytics">>, <<"analytics">>}) THEN "analytics"
        ELSE IF Includes(t, <<"device", "/">>) THEN "device"
        ELSE IF IncludesAny(t, {<<"face", "detect">>, <<"face", "detect", "ion">>}) THEN "face"
        ELSE IF IncludesAny(t, {<<"people", "detect">>, <<"person", "detect">>,
                                <<"human", "detect">>}) THEN "person"
        ELSE IF IncludesAny(t, {<<"vehicle", "detect">>, <<"car", "detect">>}) THEN "vehicle"
        ELSE IF IncludesAny(t, {<<"dogcat", "detect">>, <<"animal", "detect">>,
                                <<"pet", "detect">>}) THEN "animal"
        ELSE IF IncludesAny(t, {<<"license", "plate">>, <<"anpr">>}) THEN "license_plate"
        ELSE IF IncludesAny(t, {<<"motion", "detect">>, <<"cell", "motion">>,
                                <<"line", "detect">>, <<"field", "detect">>,
                                <<"motion", "alarm">>}) THEN "motion"
        ELSE IF IncludesAny(t, {<<"image", "too", "blurry">>, <<"image", "too", "dark">>,
                                <<"image", "too", "bright">>, <<"global", "scene", "change">>,
                                <<"tamper">>}) THEN "tamper"
        ELSE IF IncludesAny(t, {<<"audio", "analytics">>, <<"audio", "detect">>}) THEN "audio"
        ELSE IF IncludesAny(t, {<<"digital", "input">>,
                                <<"trigger", "/", "digital", "input">>}) THEN "digital_input"
        ELSE IF IncludesAny(t, {<<"relay">>, <<"relay", "output">>}) THEN "relay"
        ELSE IF IncludesAny(t, {<<"ptz", "controller">>, <<"ptz", "status">>}) THEN "ptz"
        ELSE IF Includes(t, <<"recording">>) THEN "recording"
        ELSE "unknown"

categorizeEvent(topic) ==
    LET t == ToLowerCase(topic)
    IN  IF IncludesAny(t, {<<"face", "detect">>, <<"face", "detect", "ion">>}) THEN "face"
        ELSE IF IncludesAny(t, {<<"people", "detect">>, <<"person", "detect">>,
                                <<"human", "detect">>}) THEN "person"
        ELSE IF IncludesAny(t, {<<"vehicle", "detect">>, <<"car", "detect">>}) THEN "vehicle"
        ELSE IF IncludesAny(t, {<<"dogcat", "detect">>, <<"animal", "detect">>,
                                <<"pet", "detect">>}) THEN "animal"
        ELSE IF IncludesAny(t, {<<"license", "plate">>, <<"anpr">>}) THEN "license_plate"
        ELSE IF IncludesAny(t, {<<"motion", "detect">>, <<"cell", "motion">>,
                                <<"line", "detect">>, <<"field", "detect">>,
                                <<"motion", "alarm">>}) THEN "motion"
        ELSE IF IncludesAny(t, {<<"image", "too", "blurry">>, <<"image", "too", "dark">>,
                                <<"image", "too", "bright">>, <<"global", "scene", "change">>,
                                <<"tamper">>}) THEN "tamper"
        ELSE IF IncludesAny(t, {<<"audio", "analytics">>, <<"audio", "detect">>}) THEN "audio"
        ELSE IF IncludesAny(t, {<<"digital", "input">>,
                                <<"trigger", "/", "digital", "input">>}) THEN "digital_input"
        ELSE IF IncludesAny(t, {<<"relay">>, <<"relay", "output">>}) THEN "relay"
        ELSE IF IncludesAny(t, {<<"ptz", "controller">>, <<"ptz", "status">>}) THEN "ptz"
        ELSE IF Includes(t, <<"recording">>) THEN "recording"
        ELSE IF IncludesAny(t, {<<"video", "analytics">>, <<"analytics">>}) THEN "analytics"
        ELSE IF Includes(t, <<"device", "/">>) THEN "device"
        ELSE "unknown"

\* mutant of Observed: only the first message is looked at
Observed_FirstOnly(msgs) ==
    {categorizeEvent(msgs[i].topic) :
        i \in {j \in DOMAIN msgs : j = 1 /\ msgs[j].topic # NoTopic}} \ {"unknown"}

\* JSON.stringify(properties.topicSet).toLowerCase(): the names of the topic
\* tree in order, with the punctuation of JSON between them
Stringify(topicSet) ==
    ToLowerCase([i \in DOMAIN topicSet |-> IF topicSet[i] = "/" THEN "\":{\"" ELSE topicSet[i]])

supports(properties, patterns) ==
    IF properties.topicSet = NoTopic THEN FALSE
    ELSE IncludesAny(Stringify(properties.topicSet), patterns)

\* mutant of supportsMotionDetection: the word motion alone is enough
supportsMotionDetection_AnyMotion(properties) ==
    supports(properties, {<<"motion">>})

supportsMotionDetection(properties) ==
    supports(properties, {<<"motion", "detect">>, <<"cell", "motion">>, <<"line", "detect">>,
                          <<"field", "detect">>, <<"motion", "alarm">>})

supportsFaceDetection(properties) ==
    supports(properties, {<<"face", "detect">>, <<"face", "detect", "ion">>,
                          <<"my", "rule", "detector">>})

supportsPersonDetection(properties) ==
    supports(properties, {<<"people", "detect">>, <<"person", "detect">>,
                          <<"human", "detect">>, <<"my", "rule", "detector">>})

supportsVehicleDetection(properties) ==
    supports(properties, {<<"vehicle", "detect">>, <<"car", "detect">>,
                          <<"my", "rule", "detector">>})

supportsAnimalDetection(properties) ==
    supports(properties, {<<"dogcat", "detect">>, <<"animal", "detect">>, <<"pet", "detect">>,
                          <<"my", "rule", "detector">>})

supportsLicensePlateDetection(properties) ==
    supports(properties, {<<"license", "plate">>, <<"anpr">>})

supportsAudioDetection(properties) ==
    supports(properties, {<<"audio", "analytics">>, <<"audio", "detect">>,
                          <<"sound", "detect">>})

getSupportedDetectionTypes(properties) ==
    (IF supportsMotionDetection(properties) THEN <<"motion">> ELSE <<>>)
    \o (IF supportsFaceDetection(properties) THEN <<"face">> ELSE <<>>)
    \o (IF supportsPersonDetection(properties) THEN <<"person">> ELSE <<>>)
    \o (IF supportsVehicleDetection(properties) THEN <<"vehicle">> ELSE <<>>)
    \o (IF supportsAnimalDetection(properties) THEN <<"animal">> ELSE <<>>)
    \o (IF supportsLicensePlateDetection(properties) THEN <<"license_plate">> ELSE <<>>)
    \o (IF supportsAudioDetection(properties) THEN <<"audio">> ELSE <<>>)

\* Array.from(new Set(list)): the first occurrence of each element, in order
RECURSIVE ArrayFromSet(_)
ArrayFromSet(list) ==
    IF list = <<>> THEN <<>>
    ELSE LET front == ArrayFromSet(SubSeq(list, 1, Len(list) - 1))
             last == list[Len(list)]
         IN  IF \E i \in DOMAIN front : front[i] = last THEN front ELSE Append(front, last)

\* mutant of getAllSupportedDetectionTypes: the two lists are only concatenated
getAllSupportedDetectionTypes_Concatenated(properties, observed) ==
    getSupportedDetectionTypes(properties) \o observed

getAllSupportedDetectionTypes(properties, observed) ==
    LET fromTopicSet == getSupportedDetectionTypes(properties)
    IN  ArrayFromSet(fromTopicSet \o observed)

Undefined == [defined |-> FALSE]

\* item.value === true || item.value === 'true' || item.value === '1'
IsTrue(value) == value \in {Bool("true"), Str("true"), Str("1")}

\* mutant of parseMotionEvent: the item names are compared as they are spelled
parseMotionEvent_CaseSensitive(message) ==
    IF message.topic = NoTopic THEN Undefined
    ELSE IF categorizeEvent(message.topic) # "motion" THEN Undefined
    ELSE LET items == message.data
             RECURSIVE Scan(_, _)
             Scan(i, isMotion) ==
                 IF i > Len(items) THEN isMotion
                 ELSE Scan(i + 1, IF items[i].name \in {"ismotion", "state"}
                                  THEN IsTrue(items[i].value)
                                  ELSE isMotion)
         IN  [defined |-> TRUE, isMotion |-> Scan(1, FALSE)]

\* parseMotionEvent, as far as isMotion: the for loop over data.simpleItem
parseMotionEvent(message) ==
    IF message.topic = NoTopic THEN Undefined
    ELSE IF categorizeEvent(message.topic) # "motion" THEN Undefined
    ELSE LET items == message.data
             RECURSIVE Scan(_, _)
             Scan(i, isMotion) ==
                 IF i > Len(items) THEN isMotion
                 ELSE Scan(i + 1, IF Lower(items[i].name) \in {"ismotion", "state"}
                                  THEN IsTrue(items[i].value)
                                  ELSE isMotion)
         IN  [defined |-> TRUE, isMotion |-> Scan(1, FALSE)]

\* the categories pullMessages adds to observedCategories for a reply
Observed(msgs) ==
    {categorizeEvent(msgs[i].topic) :
        i \in {j \in DOMAIN msgs : msgs[j].topic # NoTopic}} \ {"unknown"}

----------------------------------------------------------------------------
(* Suspended async calls and the record of a segment *)

\* a suspended call: who made it, what it awaits and the address its request
\* went to, kept only where the code can still depend on it after the await
\* (the request itself is in the trace of the segment that sent it)
Task(k, pc, sub) == [k |-> k, pc |-> pc, to |-> IF pc = "unsub" THEN sub.addr ELSE 0]

One(t) == SetToBag({t})

Count(k) ==
    LET ts == {t \in BagToSet(tasks) : t.k = k}
        RECURSIVE Sum(_)
        Sum(S) == IF S = {} THEN 0
                  ELSE LET t == CHOOSE x \in S : TRUE
                       IN  CopiesIn(t, tasks) + Sum(S \ {t})
    IN  Sum(ts)

Call(op, arg) == [kind |-> "call", op |-> op, arg |-> arg]
Reply(t, res, data) == [kind |-> "reply", by |-> t.k, op |-> t.pc, res |-> res, data |-> data]
Send(k, op, sub, lim) ==
    [kind |-> "send", by |-> k, op |-> op, to |-> sub.addr, sid |-> sub.sid, lim |-> lim]
Emit(sig, payload) ==
    [kind |-> "emit", sig |-> sig, payload |-> payload, delivered |-> listeners[sig]]
Deadline(t) == [kind |-> "deadline", value |-> t]
Resolve(op) == [kind |-> "resolve", op |-> op]
Reject(op, err) == [kind |-> "reject", op |-> op, err |-> err]
Thrown(op, err) == [kind |-> "thrown", op |-> op, err |-> err]
Uncaught(err) == [kind |-> "uncaught", err |-> err]
Sleep(ms) == [kind |-> "sleep", ms |-> ms]
Exit == [kind |-> "exit"]
Return(value) == [kind |-> "return", value |-> value]
Received(response) == [kind |-> "received", response |-> response]

Error(code, message) == [code |-> code, message |-> message]
\* what new URL(address) throws in parseUrl
InvalidUrl == Error("ERR_INVALID_URL", "Invalid URL")
NoActiveSubscription ==
    Error("", "No active subscription. Call createPullPointSubscription first.")

----------------------------------------------------------------------------
(* Helpers of the Events class *)

\* mutant of calculateTerminationTime: the offset is applied the wrong way
calculateTerminationTime_OffsetAdded(response) ==
    LET serverOffset == response.currentTime - now
    IN  response.terminationTime + serverOffset

\* mutant of calculateTerminationTime: the device's time is taken as it is
calculateTerminationTime_Uncorrected(response) == response.terminationTime

calculateTerminationTime(response) ==
    LET serverOffset == response.currentTime - now
    IN  response.terminationTime - serverOffset

\* what a reply of the device carries for currentTime / terminationTime
Times(skew, lease) == [currentTime |-> now + skew, terminationTime |-> now + skew + lease]

isRetryableError(error) == error.code \in RETRY_ERROR_CODES

\* mutant of Backoff: the ceiling is forgotten
Backoff_Uncapped(ms) == Times1_5(ms)

\* reconnectMs after a sleep
Backoff(ms) ==
    IF LessMs(ms, Ms(MAX_RECONNECT_MS))
    THEN MinMs(Times1_5(ms), Ms(MAX_RECONNECT_MS))
    ELSE ms

\* mutant of unsubscribe: the check of this.subscription is missing
unsubscribe_Unchecked(k) ==
    [spawn |-> One(Task(k, "unsub", subscription)),
     tr |-> <<Send(k, "unsub", subscription, 0)>>]

\* unsubscribe() up to its await: nothing without a subscription, else the
\* Unsubscribe request to the subscription's address
unsubscribe(k) ==
    IF subscription = NoSub
    THEN [spawn |-> EmptyBag, tr |-> <<>>]
    ELSE [spawn |-> One(Task(k, "unsub", subscription)),
          tr |-> <<Send(k, "unsub", subscription, 0)>>]

\* mutant of runEventLoop: the while condition is always true
runEventLoop_IgnoresStop(poll, sub, term, lim) ==
    IF sub = NoSub \/ term = NoTime \/ now > term
    THEN [spawn |-> One(Task("loop", "create", NoSub)),
          tr |-> <<Send("loop", "create", NoSub, 0)>>]
    ELSE [spawn |-> One(Task("loop", "pull", sub)),
          tr |-> <<Send("loop", "pull", sub, lim)>>]

\* mutant of runEventLoop: the deadline is not looked at
runEventLoop_IgnoresDeadline(poll, sub, term, lim) ==
    IF ~poll
    THEN [spawn |-> EmptyBag, tr |-> <<Exit>>]
    ELSE IF sub = NoSub
    THEN [spawn |-> One(Task("loop", "create", NoSub)),
          tr |-> <<Send("loop", "create", NoSub, 0)>>]
    ELSE [spawn |-> One(Task("loop", "pull", sub)),
          tr |-> <<Send("loop", "pull", sub, lim)>>]

\* runEventLoop from the top of its while, up to the first await: given the
\* fields as they are at that point
runEventLoop(poll, sub, term, lim) ==
    IF ~poll
    THEN [spawn |-> EmptyBag, tr |-> <<Exit>>]
    ELSE IF sub = NoSub \/ term = NoTime \/ now > term
    THEN [spawn |-> One(Task("loop", "create", NoSub)),
          tr |-> <<Send("loop", "create", NoSub, 0)>>]
    ELSE [spawn |-> One(Task("loop", "pull", sub)),
          tr |-> <<Send("loop", "pull", sub, lim)>>]

\* emit('error', error) of the loop's catch: EventEmitter throws the error
\* itself when no listener is attached to 'error'
EmitErrorThrows == ~listeners["error"]

\* the catch block of runEventLoop, up to its await
catch(error) ==
    IF EmitErrorThrows
    THEN [spawn |-> EmptyBag, tr |-> <<Emit("error", error), Uncaught(error)>>]
    ELSE IF isRetryableError(error)
    THEN [spawn |-> One(Task("loop", "sleep", NoSub)),
          tr |-> <<Emit("error", error), Sleep(reconnectMs)>>]
    ELSE LET u == unsubscribe("loop")
         IN  IF u.spawn = EmptyBag
             THEN LET r == runEventLoop(shouldPoll, subscription, terminationTime, messageLimit)
                  IN  [spawn |-> r.spawn, tr |-> <<Emit("error", error)>> \o r.tr]
             ELSE [spawn |-> u.spawn, tr |-> <<Emit("error", error)>> \o u.tr]

\* mutant of EmitEvents: the messages are walked from the last to the first
EmitEvents_Reversed(msgs) ==
    [i \in DOMAIN msgs |-> Emit("event", msgs[Len(msgs) + 1 - i])]

\* the for loop over result.notificationMessage
EmitEvents(msgs) == [i \in DOMAIN msgs |-> Emit("event", msgs[i])]

\* onvif.passwordDigest(): computed outside the Events class
passwordDigest(onvif) == [passDigest |-> <<"sha1", onvif.password>>]

\* mutant of buildSubscriptionBody: the SubscriptionId element is always there
buildSubscriptionBody_AlwaysId(onvif, urlAddress, subscriptionId, bodyContent) ==
    [security |-> IF onvif.username # "" /\ onvif.password # ""
                  THEN <<[username |-> onvif.username,
                          password |-> passwordDigest(onvif).passDigest]>>
                  ELSE <<>>,
     to |-> [href |-> urlAddress, mustUnderstand |-> TRUE],
     subscriptionId |-> <<subscriptionId>>,
     body |-> bodyContent]

\* the envelope of a follow-up request: its Security element if any, its
\* a:To element, its SubscriptionId element if any, and its body
buildSubscriptionBody(onvif, urlAddress, subscriptionId, bodyContent) ==
    [security |-> IF onvif.username # "" /\ onvif.password # ""
                  THEN <<[username |-> onvif.username,
                          password |-> passwordDigest(onvif).passDigest]>>
                  ELSE <<>>,
     to |-> [href |-> urlAddress, mustUnderstand |-> subscriptionId],
     subscriptionId |-> IF ~subscriptionId THEN <<>> ELSE <<subscriptionId>>,
     body |-> bodyContent]

\* the options handed to onvif.request by pullMessages, renew and unsubscribe
Request(onvif, bodyContent) ==
    [kind |-> "request",
     url |-> subscription.addr,
     raw |-> TRUE,
     body |-> buildSubscriptionBody(onvif, subscription.addr, subscription.sid, bodyContent)]

----------------------------------------------------------------------------
(* State *)

Init ==
    /\ shouldPoll = FALSE
    /\ subscription = NoSub
    /\ terminationTime = NoTime
    /\ reconnectMs = Ms(INITIAL_RECONNECT_MS)
    /\ messageLimit = DEFAULT_MESSAGE_LIMIT
    /\ observedCategories = {}
    /\ tasks = EmptyBag
    /\ listeners = [event |-> FALSE, error |-> FALSE]
    /\ now = 0
    /\ trace = <<>>
    /\ deviceNTP = Undefined
    /\ deviceDNS = Undefined
    /\ videoSources = <<>>

----------------------------------------------------------------------------
(* Consumer calls *)

\* mutant of startEventLoop: the `already running` return is missing
startEventLoop_Unguarded(options) ==
    LET lim == IF options.messageLimit = 0 THEN DEFAULT_MESSAGE_LIMIT
               ELSE options.messageLimit
        r == runEventLoop(TRUE, subscription, terminationTime, lim)
    IN  /\ shouldPoll' = TRUE
        /\ messageLimit' = lim
        /\ tasks' = tasks (+) r.spawn
        /\ trace' = <<Call("startEventLoop", options)>> \o r.tr
        /\ UNCHANGED <<subscription, terminationTime, reconnectMs, observedCategories,
                       listeners, now, caches>>

\* options.autoRenew is not read
startEventLoop(options) ==
    IF shouldPoll
    THEN /\ trace' = <<Call("startEventLoop", options)>>
         /\ UNCHANGED <<shouldPoll, subscription, terminationTime, reconnectMs, messageLimit,
                        observedCategories, tasks, listeners, now, caches>>
    ELSE LET lim == IF options.messageLimit = 0 THEN DEFAULT_MESSAGE_LIMIT
                    ELSE options.messageLimit
             r == runEventLoop(TRUE, subscription, terminationTime, lim)
         IN  /\ shouldPoll' = TRUE
             /\ messageLimit' = lim
             /\ tasks' = tasks (+) r.spawn
             /\ trace' = <<Call("startEventLoop", options)>> \o r.tr
             /\ UNCHANGED <<subscription, terminationTime, reconnectMs, observedCategories,
                            listeners, now, caches>>

\* mutant of stopEventLoop: shouldPoll is left as it is
stopEventLoop_KeepsPolling ==
    LET u == unsubscribe("background")
    IN  /\ u.spawn # EmptyBag => Count("background") < MaxBackground
        /\ tasks' = tasks (+) u.spawn
        /\ trace' = <<Call("stopEventLoop", 0)>> \o u.tr
        /\ UNCHANGED <<shouldPoll, subscription, terminationTime, reconnectMs, messageLimit,
                       observedCategories, listeners, now, caches>>

stopEventLoop ==
    LET u == unsubscribe("background")
    IN  /\ u.spawn # EmptyBag => Count("background") < MaxBackground
        /\ shouldPoll' = FALSE
        /\ tasks' = tasks (+) u.spawn
        /\ trace' = <<Call("stopEventLoop", 0)>> \o u.tr
        /\ UNCHANGED <<subscription, terminationTime, reconnectMs, messageLimit,
                       observedCategories, listeners, now, caches>>

\* mutant of on: the signals of the last segment are replayed to the listener
on_Replays(sig) ==
    LET Missed(r) == r.kind = "emit" /\ r.sig = sig
        missed == SelectSeq(trace, Missed)
    IN  /\ ~listeners[sig]
        /\ listeners' = [listeners EXCEPT ![sig] = TRUE]
        /\ trace' = [i \in DOMAIN missed |-> [missed[i] EXCEPT !.delivered = TRUE]]
        /\ UNCHANGED <<shouldPoll, subscription, terminationTime, reconnectMs, messageLimit,
                       observedCategories, tasks, now, caches>>

on(sig) ==
    /\ ~listeners[sig]
    /\ listeners' = [listeners EXCEPT ![sig] = TRUE]
    /\ trace' = <<>>
    /\ UNCHANGED <<shouldPoll, subscription, terminationTime, reconnectMs, messageLimit,
                   observedCategories, tasks, now, caches>>

off(sig) ==
    /\ listeners[sig]
    /\ listeners' = [listeners EXCEPT ![sig] = FALSE]
    /\ trace' = <<>>
    /\ UNCHANGED <<shouldPoll, subscription, terminationTime, reconnectMs, messageLimit,
                   observedCategories, tasks, now, caches>>

clearObservedCategories ==
    /\ observedCategories' = {}
    /\ trace' = <<Call("clearObservedCategories", 0)>>
    /\ UNCHANGED <<shouldPoll, subscription, terminationTime, reconnectMs, messageLimit,
                   tasks, listeners, now, caches>>

\* the client clock advances
Tick ==
    /\ now < MaxNow
    /\ now' = now + 1
    /\ trace' = <<>>
    /\ UNCHANGED <<shouldPoll, subscription, terminationTime, reconnectMs, messageLimit,
                   observedCategories, tasks, listeners, caches>>

----------------------------------------------------------------------------
(* Replies of the device, each with the continuation of the call awaiting it *)

RequestErrors == {Error(c, "request failed") : c \in Failures}

Awaiting(pc) == {t \in BagToSet(tasks) : t.pc = pc}

\* createPullPointSubscription after a reply with a subscription, and what
\* its caller does next
createOk(t, s, skew, lease) ==
    LET deadline == calculateTerminationTime(Times(skew, lease))
        next == IF t.k = "loop"
                THEN [spawn |-> One(Task("loop", "pull", s)),
                      tr |-> <<Send("loop", "pull", s, messageLimit)>>]
                ELSE [spawn |-> EmptyBag, tr |-> <<Resolve("create")>>]
    IN  /\ subscription' = s
        /\ terminationTime' = deadline
        /\ reconnectMs' = IF t.k = "loop" THEN Ms(INITIAL_RECONNECT_MS) ELSE reconnectMs
        /\ tasks' = (tasks (-) One(t)) (+) next.spawn
        /\ trace' = <<Reply(t, "ok", s), Deadline(deadline)>> \o next.tr
        /\ UNCHANGED <<shouldPoll, messageLimit, observedCategories, listeners, now, caches>>

\* mutant of callFails: a failed call drops the subscription it had
callFails_DropsSubscription(t, error) ==
    LET next == IF t.k = "loop"
                THEN catch(error)
                ELSE [spawn |-> EmptyBag, tr |-> <<Reject(t.pc, error)>>]
    IN  /\ subscription' = NoSub
        /\ terminationTime' = NoTime
        /\ tasks' = (tasks (-) One(t)) (+) next.spawn
        /\ trace' = <<Reply(t, "error", error)>> \o next.tr
        /\ UNCHANGED <<shouldPoll, reconnectMs, messageLimit, observedCategories,
                       listeners, now, caches>>

\* a call of create or pull that throws: the request failed, the reply lacks
\* the response element, or its address does not parse
callFails(t, error) ==
    LET next == IF t.k = "loop"
                THEN catch(error)
                ELSE [spawn |-> EmptyBag, tr |-> <<Reject(t.pc, error)>>]
    IN  /\ tasks' = (tasks (-) One(t)) (+) next.spawn
        /\ trace' = <<Reply(t, "error", error)>> \o next.tr
        /\ UNCHANGED <<shouldPoll, subscription, terminationTime, reconnectMs, messageLimit,
                       observedCategories, listeners, now, caches>>

createFails(t, error) == callFails(t, error)

pullFails(t, error) == callFails(t, error)

\* renew() of the loop up to its await, after the deadline was set to `term`
renewInLoop(term) ==
    IF subscription = NoSub
    THEN LET r == runEventLoop(shouldPoll, subscription, term, messageLimit)
         IN  [spawn |-> r.spawn, tr |-> <<Thrown("renew", NoActiveSubscription)>> \o r.tr]
    ELSE [spawn |-> One(Task("loop", "renew", subscription)),
          tr |-> <<Send("loop", "renew", subscription, 0)>>]

\* pullMessages after a reply with `msgs`, and what its caller does next
pullOk(t, msgs, skew, lease) ==
    LET deadline == calculateTerminationTime(Times(skew, lease))
        next == IF t.k = "loop"
                THEN LET r == renewInLoop(deadline)
                     IN  [spawn |-> r.spawn,
                          tr |-> EmitEvents(msgs) \o <<Deadline(deadline)>> \o r.tr]
                ELSE [spawn |-> EmptyBag, tr |-> <<Resolve("pull")>>]
    IN  /\ observedCategories' = observedCategories \cup Observed(msgs)
        /\ reconnectMs' = IF t.k = "loop" THEN Ms(INITIAL_RECONNECT_MS) ELSE reconnectMs
        /\ terminationTime' = IF t.k = "loop" THEN deadline ELSE terminationTime
        /\ tasks' = (tasks (-) One(t)) (+) next.spawn
        /\ trace' = <<Reply(t, "ok", msgs)>> \o next.tr
        /\ UNCHANGED <<shouldPoll, subscription, messageLimit, listeners, now, caches>>

renewOk(t, skew, lease) ==
    LET deadline == calculateTerminationTime(Times(skew, lease))
        next == IF t.k = "loop"
                THEN LET r == runEventLoop(shouldPoll, subscription, deadline, messageLimit)
                     IN  [spawn |-> r.spawn, tr |-> <<Deadline(deadline)>> \o r.tr]
                ELSE [spawn |-> EmptyBag, tr |-> <<Resolve("renew")>>]
    IN  /\ terminationTime' = IF t.k = "loop" THEN deadline ELSE terminationTime
        /\ tasks' = (tasks (-) One(t)) (+) next.spawn
        /\ trace' = <<Reply(t, "ok", <<>>)>> \o next.tr
        /\ UNCHANGED <<shouldPoll, subscription, reconnectMs, messageLimit,
                       observedCategories, listeners, now, caches>>

\* toDate: a value that is neither a Date, a string nor a number becomes the
\* current time
toDate(value) == IF value = NoTime THEN now ELSE value

\* renew after a reply whose renewResponse carries neither currentTime nor
\* terminationTime: nothing is thrown, both are read as undefined
renewUntimed(t) ==
    LET renewResult == [currentTime |-> toDate(NoTime), terminationTime |-> toDate(NoTime)]
        deadline == calculateTerminationTime(renewResult)
        next == IF t.k = "loop"
                THEN LET r == runEventLoop(shouldPoll, subscription, deadline, messageLimit)
                     IN  [spawn |-> r.spawn, tr |-> <<Deadline(deadline)>> \o r.tr]
                ELSE [spawn |-> EmptyBag, tr |-> <<Resolve("renew")>>]
    IN  /\ terminationTime' = IF t.k = "loop" THEN deadline ELSE terminationTime
        /\ tasks' = (tasks (-) One(t)) (+) next.spawn
        /\ trace' = <<Reply(t, "untimed", <<>>)>> \o next.tr
        /\ UNCHANGED <<shouldPoll, subscription, reconnectMs, messageLimit,
                       observedCategories, listeners, now, caches>>

renewFails(t, error) ==
    LET next == IF t.k = "loop"
                THEN runEventLoop(shouldPoll, subscription, terminationTime, messageLimit)
                ELSE [spawn |-> EmptyBag, tr |-> <<Reject("renew", error)>>]
    IN  /\ tasks' = (tasks (-) One(t)) (+) next.spawn
        /\ trace' = <<Reply(t, "error", error)>> \o next.tr
        /\ UNCHANGED <<shouldPoll, subscription, terminationTime, reconnectMs, messageLimit,
                       observedCategories, listeners, now, caches>>

\* mutant of unsubscribeDone: the fields are cleared after the request, not
\* in a finally block
unsubscribeDone_OnSuccessOnly(t, ok) ==
    LET sub == IF ok THEN NoSub ELSE subscription
        term == IF ok THEN NoTime ELSE terminationTime
        next == IF t.k = "loop"
                THEN runEventLoop(shouldPoll, sub, term, messageLimit)
                ELSE IF t.k = "direct"
                THEN [spawn |-> EmptyBag, tr |-> <<Resolve("unsub")>>]
                ELSE [spawn |-> EmptyBag, tr |-> <<>>]
    IN  /\ subscription' = sub
        /\ terminationTime' = term
        /\ tasks' = (tasks (-) One(t)) (+) next.spawn
        /\ trace' = <<Reply(t, IF ok THEN "ok" ELSE "error", <<>>)>> \o next.tr
        /\ UNCHANGED <<shouldPoll, reconnectMs, messageLimit, observedCategories,
                       listeners, now, caches>>

\* mutant of unsubscribeDone: the finally block resets the observed categories too
unsubscribeDone_ForgetsObserved(t, ok) ==
    LET next == IF t.k = "loop"
                THEN runEventLoop(shouldPoll, NoSub, NoTime, messageLimit)
                ELSE IF t.k = "direct"
                THEN [spawn |-> EmptyBag, tr |-> <<Resolve("unsub")>>]
                ELSE [spawn |-> EmptyBag, tr |-> <<>>]
    IN  /\ subscription' = NoSub
        /\ terminationTime' = NoTime
        /\ observedCategories' = {}
        /\ tasks' = (tasks (-) One(t)) (+) next.spawn
        /\ trace' = <<Reply(t, IF ok THEN "ok" ELSE "error", <<>>)>> \o next.tr
        /\ UNCHANGED <<shouldPoll, reconnectMs, messageLimit, listeners, now, caches>>

\* unsubscribe after its request settled either way: the finally block
unsubscribeDone(t, ok) ==
    LET next == IF t.k = "loop"
                THEN runEventLoop(shouldPoll, NoSub, NoTime, messageLimit)
                ELSE IF t.k = "direct"
                THEN [spawn |-> EmptyBag, tr |-> <<Resolve("unsub")>>]
                ELSE [spawn |-> EmptyBag, tr |-> <<>>]
    IN  /\ subscription' = NoSub
        /\ terminationTime' = NoTime
        /\ tasks' = (tasks (-) One(t)) (+) next.spawn
        /\ trace' = <<Reply(t, IF ok THEN "ok" ELSE "error", <<>>)>> \o next.tr
        /\ UNCHANGED <<shouldPoll, reconnectMs, messageLimit, observedCategories,
                       listeners, now, caches>>

\* the timer of sleep(ms) fires
sleepDone(t) ==
    LET ms == Backoff(reconnectMs)
        r == runEventLoop(shouldPoll, subscription, terminationTime, messageLimit)
    IN  /\ reconnectMs' = ms
        /\ tasks' = (tasks (-) One(t)) (+) r.spawn
        /\ trace' = <<Reply(t, "ok", <<>>)>> \o r.tr
        /\ UNCHANGED <<shouldPoll, subscription, terminationTime, messageLimit,
                       observedCategories, listeners, now, caches>>

----------------------------------------------------------------------------
(* Operations called directly by the consumer, up to their await *)

createPullPointSubscription ==
    /\ Count("direct") < MaxDirect
    /\ tasks' = tasks (+) One(Task("direct", "create", NoSub))
    /\ trace' = <<Call("createPullPointSubscription", 0), Send("direct", "create", NoSub, 0)>>
    /\ UNCHANGED <<shouldPoll, subscription, terminationTime, reconnectMs, messageLimit,
                   observedCategories, listeners, now, caches>>

\* mutant of requireSubscription: the check of this.subscription is missing
requireSubscription_Unchecked(name, op, opt, lim) ==
    /\ Count("direct") < MaxDirect
    /\ tasks' = tasks (+) One(Task("direct", op, subscription))
    /\ trace' = <<Call(name, opt), Send("direct", op, subscription, lim)>>
    /\ UNCHANGED <<shouldPoll, subscription, terminationTime, reconnectMs, messageLimit,
                   observedCategories, listeners, now, caches>>

\* pullMessages and renew start with the same check of this.subscription
requireSubscription(name, op, opt, lim) ==
    IF subscription = NoSub
    THEN /\ trace' = <<Call(name, opt), Reject(op, NoActiveSubscription)>>
         /\ UNCHANGED <<shouldPoll, subscription, terminationTime, reconnectMs, messageLimit,
                        observedCategories, tasks, listeners, now, caches>>
    ELSE /\ Count("direct") < MaxDirect
         /\ tasks' = tasks (+) One(Task("direct", op, subscription))
         /\ trace' = <<Call(name, opt), Send("direct", op, subscription, lim)>>
         /\ UNCHANGED <<shouldPoll, subscription, terminationTime, reconnectMs, messageLimit,
                        observedCategories, listeners, now, caches>>

pullMessages(opt) ==
    requireSubscription("pullMessages", "pull", opt, IF opt = 0 THEN messageLimit ELSE opt)

renew == requireSubscription("renew", "renew", 0, 0)

unsubscribeCall ==
    LET u == unsubscribe("direct")
    IN  /\ u.spawn # EmptyBag => Count("direct") < MaxDirect
        /\ tasks' = tasks (+) u.spawn
        /\ trace' = <<Call("unsubscribe", 0)>> \o
                    (IF u.spawn = EmptyBag THEN <<Resolve("unsub")>> ELSE u.tr)
        /\ UNCHANGED <<shouldPoll, subscription, terminationTime, reconnectMs, messageLimit,
                       observedCategories, listeners, now, caches>>

----------------------------------------------------------------------------
(* Specifications *)

\* a short outage: the device is unreachable once, and reachable again when
\* the loop retries
ShortOutage == reconnectMs = Ms(INITIAL_RECONNECT_MS)

\* the consumer starts a loop while fewer than MaxLoops are alive
MayStart == shouldPoll \/ Count("loop") < MaxLoops

CreateReplies(outage) ==
    \E t \in Awaiting("create") :
        \/ \E s \in DeviceSubs, skew \in Skews, lease \in Leases : createOk(t, s, skew, lease)
        \/ \E e \in RequestErrors : (isRetryableError(e) => outage) /\ createFails(t, e)
        \/ createFails(t, Error("", "Invalid CreatePullPointSubscription response"))
        \/ createFails(t, InvalidUrl)

PullReplies(outage) ==
    \E t \in Awaiting("pull") :
        \/ \E msgs \in PullResults, skew \in Skews, lease \in Leases :
               pullOk(t, msgs, skew, lease)
        \/ \E e \in RequestErrors : (isRetryableError(e) => outage) /\ pullFails(t, e)
        \/ pullFails(t, Error("", "Invalid PullMessages response"))

RenewReplies ==
    \E t \in Awaiting("renew") :
        \/ \E skew \in Skews, lease \in Leases : renewOk(t, skew, lease)
        \/ \E e \in RequestErrors : renewFails(t, e)

UnsubscribeReplies == \E t \in Awaiting("unsub"), ok \in BOOLEAN : unsubscribeDone(t, ok)

Timers == \E t \in Awaiting("sleep") : sleepDone(t)

\* the session driven by startEventLoop / stopEventLoop only
Next ==
    \/ \E options \in {o \in LoopOptions : o.autoRenew} : MayStart /\ startEventLoop(options)
    \/ stopEventLoop
    \/ on("error")
    \/ off("error")
    \/ Tick
    \/ CreateReplies(ShortOutage)
    \/ PullReplies(ShortOutage)
    \/ RenewReplies
    \/ UnsubscribeReplies
    \/ Timers

Spec == Init /\ [][Next]_vars

\* a device that stays unreachable for as long as it likes: one polling
\* session, started with the default options
NextOutage ==
    \/ MayStart /\ startEventLoop(DefaultOptions)
    \/ stopEventLoop
    \/ clearObservedCategories
    \/ on("error")
    \/ CreateReplies(TRUE)
    \/ PullReplies(TRUE)
    \/ RenewReplies
    \/ UnsubscribeReplies
    \/ Timers

SpecOutage == Init /\ [][NextOutage]_vars

\* the consumer also calls the subscription operations itself (and attaches
\* no listener), all within one clock instant
NextDirect ==
    \/ MayStart /\ startEventLoop(DefaultOptions)
    \/ stopEventLoop
    \/ createPullPointSubscription
    \/ \E opt \in LimitOptions : pullMessages(opt)
    \/ renew
    \/ unsubscribeCall
    \/ CreateReplies(FALSE)
    \/ PullReplies(FALSE)
    \/ RenewReplies
    \/ UnsubscribeReplies

SpecDirect == Init /\ [][NextDirect]_vars

\* the deadline arithmetic alone: the client clock reads any of LocalNows when
\* a response arrives
InitClock ==
    /\ shouldPoll = FALSE
    /\ subscription = NoSub
    /\ terminationTime = NoTime
    /\ reconnectMs = Ms(INITIAL_RECONNECT_MS)
    /\ messageLimit = DEFAULT_MESSAGE_LIMIT
    /\ observedCategories = {}
    /\ tasks = EmptyBag
    /\ listeners = [event |-> FALSE, error |-> FALSE]
    /\ now \in LocalNows
    /\ trace = <<>>
    /\ deviceNTP = Undefined
    /\ deviceDNS = Undefined
    /\ videoSources = <<>>

\* this.terminationTime = this.calculateTerminationTime(response)
recomputeDeadline(response) ==
    LET deadline == calculateTerminationTime(response)
    IN  /\ terminationTime' = deadline
        /\ trace' = <<Received(response), Deadline(deadline)>>
        /\ UNCHANGED <<shouldPoll, subscription, reconnectMs, messageLimit,
                       observedCategories, tasks, listeners, now, caches>>

NextClock ==
    \E currentTime \in DeviceTimes, lifetime \in Lifetimes :
        recomputeDeadline([currentTime |-> currentTime,
                           terminationTime |-> currentTime + lifetime])

SpecClock == InitClock /\ [][NextClock]_vars

\* every loop is started with autoRenew: false, and no listener is attached
NextNoRenew ==
    \/ \E options \in {o \in LoopOptions : ~o.autoRenew} : MayStart /\ startEventLoop(options)
    \/ stopEventLoop
    \/ CreateReplies(FALSE)
    \/ PullReplies(FALSE)
    \/ RenewReplies
    \/ UnsubscribeReplies

SpecNoRenew == Init /\ [][NextNoRenew]_vars

\* the consumer attaches to and detaches from `event` while the loop polls
NextListen ==
    \/ MayStart /\ startEventLoop(DefaultOptions)
    \/ stopEventLoop
    \/ on("event")
    \/ off("event")
    \/ CreateReplies(FALSE)
    \/ PullReplies(FALSE)
    \/ RenewReplies
    \/ UnsubscribeReplies

SpecListen == Init /\ [][NextListen]_vars

\* a device whose Renew replies may lack the times
NextRenew ==
    \/ MayStart /\ startEventLoop(DefaultOptions)
    \/ stopEventLoop
    \/ CreateReplies(FALSE)
    \/ PullReplies(FALSE)
    \/ RenewReplies
    \/ \E t \in Awaiting("renew") : renewUntimed(t)
    \/ UnsubscribeReplies

SpecRenew == Init /\ [][NextRenew]_vars

\* the requests of the follow-up calls alone: a session that holds any of
\* HeldSubscriptions, on an Onvif object with any of the credentials
InitEnvelope ==
    /\ shouldPoll = FALSE
    /\ subscription \in HeldSubscriptions
    /\ terminationTime = 1
    /\ reconnectMs = Ms(INITIAL_RECONNECT_MS)
    /\ messageLimit = DEFAULT_MESSAGE_LIMIT
    /\ observedCategories = {}
    /\ tasks = EmptyBag
    /\ listeners = [event |-> FALSE, error |-> FALSE]
    /\ now = 0
    /\ trace = <<>>
    /\ deviceNTP = Undefined
    /\ deviceDNS = Undefined
    /\ videoSources = <<>>

\* pullMessages, renew or unsubscribe up to the call of onvif.request
requestOf(onvif, name, bodyContent) ==
    /\ subscription # NoSub
    /\ trace' = <<Call(name, onvif), Request(onvif, bodyContent)>>
    /\ UNCHANGED <<shouldPoll, subscription, terminationTime, reconnectMs, messageLimit,
                   observedCategories, tasks, listeners, now, caches>>

\* one call in each behaviour
NextEnvelope ==
    /\ trace = <<>>
    /\ \E onvif \in OnvifObjects :
           \/ requestOf(onvif, "pullMessages", "PullMessages")
           \/ requestOf(onvif, "renew", "Renew")
           \/ requestOf(onvif, "unsubscribe", "Unsubscribe")

SpecEnvelope == InitEnvelope /\ [][NextEnvelope]_vars

\* the consumer may start a loop again while the activation it stopped is
\* still suspended at an await: one activation more than MaxLoops
MayRestart == shouldPoll \/ Count("loop") <= MaxLoops

NextRestart ==
    \/ MayRestart /\ startEventLoop(DefaultOptions)
    \/ stopEventLoop
    \/ CreateReplies(FALSE)
    \/ PullReplies(FALSE)
    \/ RenewReplies
    \/ UnsubscribeReplies

SpecRestart == Init /\ [][NextRestart]_vars

\* every request in flight is answered and every sleep ends, sooner or later
NextLive ==
    \/ MayStart /\ startEventLoop(DefaultOptions)
    \/ stopEventLoop
    \/ on("error")
    \/ CreateReplies(ShortOutage)
    \/ PullReplies(ShortOutage)
    \/ RenewReplies
    \/ UnsubscribeReplies
    \/ Timers

SpecLive ==
    /\ Init
    /\ [][NextLive]_vars
    /\ WF_vars(CreateReplies(ShortOutage))
    /\ WF_vars(PullReplies(ShortOutage))
    /\ WF_vars(RenewReplies)
    /\ WF_vars(UnsubscribeReplies)
    /\ WF_vars(Timers)

----------------------------------------------------------------------------
(* The Device service: the cached NTP and DNS information *)

\* the fields of the Events object
session == <<shouldPoll, subscription, terminationTime, reconnectMs, messageLimit,
             observedCategories, tasks, listeners, now>>

\* a list property of a reply as the parser hands it over: nothing when the
\* device sent no element, the bare element when it sent one, an array when
\* it sent several
Absent == [array |-> FALSE, items |-> <<>>]
Bare(x) == [array |-> FALSE, items |-> <<x>>]
ArrayOf(xs) == [array |-> TRUE, items |-> xs]

\* `if (v && !Array.isArray(v)) v = [v]`
ToArray(v) == IF v.items # <<>> /\ ~v.array THEN ArrayOf(v.items) ELSE v

\* NTPInformation / DNSInformation of a reply; Undefined when the reply has none
NTPInformations ==
    {Undefined} \cup
    [defined : {TRUE}, fromDHCP : BOOLEAN,
     NTPManual : {Absent, Bare("ntp1"), ArrayOf(<<"ntp1", "ntp2">>)},
     NTPFromDHCP : {Absent, Bare("ntp3")}]
DNSInformations ==
    {Undefined} \cup
    [defined : {TRUE}, fromDHCP : BOOLEAN,
     DNSManual : {Absent, Bare("dns1"), ArrayOf(<<"dns1", "dns2">>)},
     DNSFromDHCP : {Absent, Bare("dns3")}]

\* the getters of the cached properties
NTP == deviceNTP
DNS == deviceNTP

\* getNTP with the device's reply
getNTP(info) ==
    LET stored == IF info = Undefined THEN Undefined
                  ELSE [info EXCEPT !.NTPManual = ToArray(@), !.NTPFromDHCP = ToArray(@)]
    IN  /\ deviceNTP' = stored
        /\ trace' = <<Call("getNTP", 0), Received(info), Return(stored)>>
        /\ UNCHANGED <<session, deviceDNS, videoSources>>

\* getDNS with the device's reply
getDNS(info) ==
    LET stored == IF info = Undefined THEN Undefined
                  ELSE [info EXCEPT !.DNSManual = ToArray(@), !.DNSFromDHCP = ToArray(@)]
    IN  /\ deviceDNS' = stored
        /\ trace' = <<Call("getDNS", 0), Received(info), Return(stored)>>
        /\ UNCHANGED <<session, deviceNTP, videoSources>>

\* a get whose request fails: it throws before any assignment
getFails(name, error) ==
    /\ trace' = <<Call(name, 0), Reject(name, error)>>
    /\ UNCHANGED <<session, caches>>

NextDevice ==
    \/ \E info \in NTPInformations : getNTP(info)
    \/ \E info \in DNSInformations : getDNS(info)
    \/ \E name \in {"getNTP", "getDNS"}, error \in RequestErrors : getFails(name, error)

SpecDevice == Init /\ [][NextDevice]_vars

\* GetVideoSources replies as parsed: no response element, no videoSources,
\* a single source, or an array of sources
VideoSourceTokens == {"vs1", "vs2"}
VideoSourcesResponses ==
    {Undefined, Absent, ArrayOf(<<>>)}
        \cup {Bare(x) : x \in VideoSourceTokens}
        \cup {ArrayOf(<<x>>) : x \in VideoSourceTokens}
        \cup {ArrayOf(p) : p \in {q \in VideoSourceTokens \X VideoSourceTokens : q[1] # q[2]}}

\* getVideoSources: every source of the reply is pushed onto the cache,
\* which is created empty with the Media object and never emptied
getVideoSources(parsed) ==
    LET videoSourcesResponse == IF parsed = Undefined THEN ArrayOf(<<>>) ELSE parsed
    IN  /\ Len(videoSources) < MaxVideoSources
        /\ videoSources' = videoSources \o videoSourcesResponse.items
        /\ trace' = <<Call("getVideoSources", 0), Received(parsed),
                      Return(videoSourcesResponse)>>
        /\ UNCHANGED <<session, deviceNTP, deviceDNS>>

NextMedia ==
    \/ \E parsed \in VideoSourcesResponses : getVideoSources(parsed)
    \/ \E error \in RequestErrors : getFails("getVideoSources", error)

SpecMedia == Init /\ [][NextMedia]_vars

\* the classifier alone, called with any of Topics
callCategorizeEvent(topic) ==
    /\ trace' = <<Call("categorizeEvent", topic), Return(categorizeEvent(topic))>>
    /\ UNCHANGED <<shouldPoll, subscription, terminationTime, reconnectMs, messageLimit,
                   observedCategories, tasks, listeners, now, caches>>

\* one call in each behaviour: the function keeps no state
NextClassify == trace = <<>> /\ \E topic \in Topics : callCategorizeEvent(topic)

SpecClassify == Init /\ [][NextClassify]_vars

\* the motion extractor alone, called with any of ParsedMessages
callParseMotionEvent(message) ==
    /\ trace' = <<Call("parseMotionEvent", message), Return(parseMotionEvent(message))>>
    /\ UNCHANGED <<shouldPoll, subscription, terminationTime, reconnectMs, messageLimit,
                   observedCategories, tasks, listeners, now, caches>>

\* one call in each behaviour: the function keeps no state
NextExtract == trace = <<>> /\ \E message \in ParsedMessages : callParseMotionEvent(message)

SpecExtract == Init /\ [][NextExtract]_vars

\* the static inference alone
callGetSupportedDetectionTypes(properties) ==
    /\ trace' = <<Call("getSupportedDetectionTypes", properties),
                  Return(getSupportedDetectionTypes(properties))>>
    /\ UNCHANGED <<shouldPoll, subscription, terminationTime, reconnectMs, messageLimit,
                   observedCategories, tasks, listeners, now, caches>>

callGetAllSupportedDetectionTypes(properties, observed) ==
    /\ trace' = <<Call("getAllSupportedDetectionTypes",
                       [properties |-> properties, observed |-> observed]),
                  Return(getAllSupportedDetectionTypes(properties, observed))>>
    /\ UNCHANGED <<shouldPoll, subscription, terminationTime, reconnectMs, messageLimit,
                   observedCategories, tasks, listeners, now, caches>>

\* one call in each behaviour: the functions keep no state
NextDetect ==
    /\ trace = <<>>
    /\ \/ \E properties \in EventPropertiesSet : callGetSupportedDetectionTypes(properties)
       \/ \E properties \in EventPropertiesSet, observed \in ObservedLists :
              callGetAllSupportedDetectionTypes(properties, observed)

SpecDetect == Init /\ [][NextDetect]_vars

----------------------------------------------------------------------------
(* Properties. `trace` holds what the last segment did, in program order.  *)

Has(kind) == \E i \in DOMAIN trace : trace[i].kind = kind

\* the last segment began with the reply `res` to operation `op` of caller `by`
LastReply(by, op, res) ==
    /\ trace # <<>>
    /\ trace[1].kind = "reply"
    /\ trace[1].by = by
    /\ trace[1].op = op
    /\ trace[1].res = res

\* the last segment was the consumer's call of `op`
LastCall(op) == trace # <<>> /\ trace[1].kind = "call" /\ trace[1].op = op

Emits(sig) == {i \in DOMAIN trace : trace[i].kind = "emit" /\ trace[i].sig = sig}

Sends(by, ops) ==
    {i \in DOMAIN trace : trace[i].kind = "send" /\ trace[i].by = by /\ trace[i].op \in ops}

\* network operations in flight
InFlight == {t \in BagToSet(tasks) : t.pc \in {"create", "pull", "renew", "unsub"}}

NumberInFlight == BagCardinality([t \in InFlight |-> CopiesIn(t, tasks)])

\* C1: every failure of create or pull in the loop becomes exactly one
\* `error` signal carrying the failure and never ends the loop, whoever is
\* attached: the loop exits only when stopped.
C1_LoopSurvivesEveryFailure ==
    /\ (LastReply("loop", "create", "error") \/ LastReply("loop", "pull", "error")) =>
           /\ Cardinality(Emits("error")) = 1
           /\ \A i \in Emits("error") : trace[i].payload = trace[1].data
           /\ ~Has("uncaught")
    /\ Has("exit") => ~shouldPoll

\* C2: a successful pull of the loop with N messages is followed by exactly
\* N `event` signals, one per message in pull order, all before the deadline
\* is recomputed and before the renew request is sent.
C2_EventsInPullOrder ==
    LastReply("loop", "pull", "ok") =>
        LET msgs == trace[1].data
            n == Len(msgs)
        IN  /\ Emits("event") = 2..(n + 1)
            /\ \A i \in 1..n : trace[i + 1].payload = msgs[i]
            /\ Has("deadline")
            /\ \A i \in DOMAIN trace : trace[i].kind \in {"deadline", "send"} => i > n + 1

C2_TwoMessagesPulled ==
    /\ LastReply("loop", "pull", "ok")
    /\ Len(trace[1].data) = 2
    /\ trace[1].data[1] # trace[1].data[2]
    /\ Sends("loop", {"renew"}) # {}

\* b = 1.5 * a, exactly
OneAndAHalfTimes(a, b) ==
    LET d == 3 * a[1] - 2 * b[1]
    IN  d \in -2..2 /\ d * Frac = 2 * b[2] - 3 * a[2]

Grows(a, b) ==
    IF LessMs(a, Ms(80000)) THEN OneAndAHalfTimes(a, b) ELSE b = Ms(120000)

LoopSucceeded == LastReply("loop", "create", "ok") \/ LastReply("loop", "pull", "ok")

C3_DelayInRange ==
    /\ ~LessMs(reconnectMs, Ms(10))
    /\ ~LessMs(Ms(120000), reconnectMs)
    /\ LoopSucceeded => reconnectMs = Ms(10)
    /\ \A i \in DOMAIN trace : trace[i].kind = "sleep" => trace[i].ms = reconnectMs

C3_DelayStep ==
    /\ IF LastReply("loop", "sleep", "ok")'
       THEN Grows(reconnectMs, reconnectMs')
       ELSE reconnectMs' \in {reconnectMs, Ms(10)}
    /\ LoopSucceeded =>
           \A i \in DOMAIN trace' : trace'[i].kind = "sleep" => trace'[i].ms = Ms(10)

\* C3: the retry delay starts at 10 ms, every sleep lasts the current delay
\* and then multiplies it by 1.5 up to 120000 ms where it stays, a success of
\* create or pull in the loop resets it to 10 ms, and it is always within
\* 10..120000.
C3_Backoff == []C3_DelayInRange /\ [][C3_DelayStep]_vars

C3_SleepsAtCeiling ==
    /\ reconnectMs = Ms(120000)
    /\ \E i \in DOMAIN trace : trace[i].kind = "sleep" /\ trace[i].ms = Ms(120000)

C4_StartStep ==
    LastCall("startEventLoop")' =>
        IF shouldPoll
        THEN /\ shouldPoll'
             /\ messageLimit' = messageLimit
             /\ tasks' = tasks
             /\ Len(trace') = 1
        ELSE /\ shouldPoll'
             /\ messageLimit' = (IF trace'[1].arg.messageLimit = 0 THEN 10
                                 ELSE trace'[1].arg.messageLimit)
             /\ \E t \in BagToSet(tasks') :
                    /\ t.k = "loop"
                    /\ t.pc \in {"create", "pull"}
                    /\ tasks' = tasks (+) SetToBag({t})
             /\ ~Has("reply")'
             /\ ~Has("resolve")'

\* C4: startEventLoop while polling changes nothing; while stopped it sets
\* isRunning, captures options.messageLimit (default 10) and launches one
\* loop, returning before any reply has arrived; every pull of the loop asks
\* for the captured limit.
C4_Start ==
    /\ [](\A i \in Sends("loop", {"pull"}) : trace[i].lim = messageLimit)
    /\ [][C4_StartStep]_vars

C4_StartWhilePolling ==
    /\ LastCall("startEventLoop")
    /\ Len(trace) = 1
    /\ trace[1].arg.messageLimit = 3
    /\ shouldPoll
    /\ messageLimit = 10

\* C5: stopEventLoop always leaves isRunning false, never throws, and only
\* starts the unsubscribe: it returns with the subscription still set and
\* the Unsubscribe request in flight.
C5_Stop ==
    LastCall("stopEventLoop") =>
        /\ ~shouldPoll
        /\ ~Has("thrown") /\ ~Has("uncaught") /\ ~Has("reject")
        /\ ~Has("reply")
        /\ IF subscription = NoSub
           THEN Len(trace) = 1
           ELSE /\ Cardinality(Sends("background", {"unsub"})) = 1
                /\ Len(trace) = 2
                /\ \E t \in BagToSet(tasks) : t.k = "background" /\ t.to = subscription.addr

C5_StopReturnsBeforeUnsubscribed ==
    /\ LastCall("stopEventLoop")
    /\ subscription # NoSub
    /\ terminationTime # NoTime
    /\ \E t \in BagToSet(tasks) : t.k = "background" /\ t.pc = "unsub"

\* C6: with only startEventLoop and stopEventLoop called, at most one
\* network operation of the session is in flight.
C6_OneOperationInFlight == NumberInFlight <= 1

\* C7: once stopEventLoop was called, with no startEventLoop after it, the
\* loop sends no further create, pull or renew request.
C7_NoRequestAfterStop == ~shouldPoll => Sends("loop", {"create", "pull", "renew"}) = {}

\* C8: when an unsubscribe with a subscription ends, whether its request
\* succeeded or failed, the subscription and the deadline are cleared, nothing
\* is thrown to the caller and no `error` signal is emitted.
C8_UnsubscribeClears ==
    (trace # <<>> /\ trace[1].kind = "reply" /\ trace[1].op = "unsub") =>
        /\ subscription = NoSub
        /\ terminationTime = NoTime
        /\ Emits("error") = {}
        /\ ~Has("thrown") /\ ~Has("uncaught") /\ ~Has("reject")

C8_UnsubscribeRequestFailed ==
    /\ LastReply("loop", "unsub", "error")
    /\ subscription = NoSub
    /\ shouldPoll

C9_UnsubscribeStep ==
    (LastCall("unsubscribe")' /\ subscription = NoSub) =>
        /\ trace' = <<Call("unsubscribe", 0), Resolve("unsub")>>
        /\ UNCHANGED <<subscription, terminationTime, shouldPoll, reconnectMs,
                       observedCategories, tasks, caches>>

\* C9: unsubscribe without a subscription returns normally, sends nothing and
\* changes nothing.
C9_UnsubscribeWithoutSubscription == [][C9_UnsubscribeStep]_vars

C9_UnsubscribedNothing ==
    /\ trace = <<Call("unsubscribe", 0), Resolve("unsub")>>
    /\ subscription = NoSub
    /\ shouldPoll

C10_RequireStep ==
    ((LastCall("pullMessages")' \/ LastCall("renew")') /\ subscription = NoSub) =>
        /\ Len(trace') = 2
        /\ trace'[2].kind = "reject"
        /\ trace'[2].err.message =
               "No active subscription. Call createPullPointSubscription first."
        /\ UNCHANGED <<subscription, terminationTime, observedCategories, tasks, caches>>

\* C10: pullMessages and renew without a subscription fail with
\* NoActiveSubscription, send nothing and change nothing.
C10_NoActiveSubscription == [][C10_RequireStep]_vars

C10_PullRejected ==
    /\ LastCall("pullMessages")
    /\ Has("reject")
    /\ observedCategories # {}

\* C11: no pull or renew called by the loop fails with NoActiveSubscription:
\* the session has a subscription whenever the loop calls them.
C11_LoopHasSubscription ==
    \A i \in DOMAIN trace : trace[i].kind = "thrown" => trace[i].err # NoActiveSubscription

\* the last segment recomputed the deadline from a response
Recomputed == Len(trace) = 2 /\ trace[1].kind = "received" /\ trace[2].kind = "deadline"

\* C12: the deadline recomputed from a response {currentTime, terminationTime}
\* at local time localNow is terminationTime - (currentTime - localNow), that
\* is localNow + (terminationTime - currentTime), whatever the clock offset.
C12_DeadlineRemovesOffset ==
    Recomputed =>
        LET r == trace[1].response
        IN  /\ trace[2].value = r.terminationTime - (r.currentTime - now)
            /\ trace[2].value = now + (r.terminationTime - r.currentTime)
            /\ terminationTime = trace[2].value

C12_DeviceClockBehind ==
    /\ Recomputed
    /\ trace[1].response.currentTime < now
    /\ trace[1].response.terminationTime > trace[1].response.currentTime
    /\ terminationTime > trace[1].response.terminationTime

\* the device reports currentTime = T and terminationTime = T + 120 s and the
\* client clock reads T + 5 s
FiveSecondsAhead ==
    /\ Recomputed
    /\ trace[1].response.terminationTime = trace[1].response.currentTime + 120000
    /\ now = trace[1].response.currentTime + 5000

\* C13 as stated: in that case the recomputed deadline is localNow + 115 s.
C13_DeadlineIs115s == FiveSecondsAhead => terminationTime = now + 115000

\* C13, amended: in that case the recomputed deadline is localNow + 120 s
\* (T + 125 s).
C13_DeadlineIs120s ==
    FiveSecondsAhead =>
        /\ terminationTime = now + 120000
        /\ terminationTime = trace[1].response.currentTime + 125000

C13_FiveSecondsAheadSeen == FiveSecondsAhead /\ trace[1].response.currentTime = 5000

\* C14: after every successful create, pull and renew, called by the loop or
\* by the consumer, the deadline is recomputed from the response.
C14_DeadlineRecomputed ==
    (trace # <<>> /\ trace[1].kind = "reply" /\ trace[1].res = "ok"
        /\ trace[1].op \in {"create", "pull", "renew"}) =>
        \E i \in DOMAIN trace : trace[i].kind = "deadline" /\ terminationTime = trace[i].value

\* C15: a loop started with autoRenew = false never issues a renew request.
C15_NoRenewWhenDisabled == Sends("loop", {"renew"}) = {}

PullSucceeded ==
    trace # <<>> /\ trace[1].kind = "reply" /\ trace[1].op = "pull" /\ trace[1].res = "ok"

\* C16 as stated: after a successful pull the category of every returned
\* message's topic is in observedCategories, whatever the category.
C16_EveryCategoryObserved ==
    PullSucceeded =>
        \A i \in DOMAIN trace[1].data :
            trace[1].data[i].topic # NoTopic =>
                categorizeEvent(trace[1].data[i].topic) \in observedCategories

\* C16, amended: after a successful pull the category of every returned
\* message's topic is in observedCategories unless it is `unknown`, which is
\* never added.
C16_KnownCategoriesObserved ==
    /\ "unknown" \notin observedCategories
    /\ PullSucceeded =>
           \A i \in DOMAIN trace[1].data :
               LET topic == trace[1].data[i].topic
               IN  (topic # NoTopic /\ categorizeEvent(topic) # "unknown") =>
                       categorizeEvent(topic) \in observedCategories

C16_MotionAfterUnknown ==
    /\ PullSucceeded
    /\ trace[1].data = <<Other, Motion>>
    /\ observedCategories = {"motion"}

C17_ObservedStep ==
    /\ ~LastCall("clearObservedCategories")' => observedCategories \subseteq observedCategories'
    /\ (trace' # <<>> /\ trace'[1].kind = "reply" /\ trace'[1].op = "pull"
            /\ trace'[1].res = "error") => observedCategories' = observedCategories

\* C17: observedCategories only grows: nothing but clearObservedCategories
\* removes a category, not unsubscribe, stopEventLoop, startEventLoop, a new
\* subscription or a failure; a failed pull leaves it unchanged.
C17_ObservedOnlyGrows == [][C17_ObservedStep]_vars

C17_KeptThroughUnsubscribe ==
    /\ LastReply("loop", "unsub", "ok")
    /\ observedCategories = {"motion"}
    /\ subscription = NoSub
    /\ Sends("loop", {"create"}) # {}

CreateReplied(res) ==
    trace # <<>> /\ trace[1].kind = "reply" /\ trace[1].op = "create" /\ trace[1].res = res

C18_CreateOutcome ==
    /\ CreateReplied("ok") =>
           /\ subscription = trace[1].data
           /\ \E i \in DOMAIN trace : trace[i].kind = "deadline" /\ terminationTime = trace[i].value
           /\ \A i \in DOMAIN trace : trace[i].kind = "send" => trace[i].op # "unsub"
    /\ (CreateReplied("error") /\ trace[1].by = "direct") =>
           trace = <<trace[1], Reject("create", trace[1].data)>>

C18_CreateStep ==
    /\ CreateReplied("error")' => UNCHANGED <<subscription, terminationTime, caches>>
    /\ CreateReplied("ok")' => subscription' \in DeviceSubs

\* C18: a successful createPullPointSubscription replaces the subscription by
\* the new one, sending no Unsubscribe for the old one, and recomputes the
\* deadline; a reply without the response, a failed request and an address
\* that does not parse fail the call with that error and leave the
\* subscription and the deadline as they were.
C18_Create == []C18_CreateOutcome /\ [][C18_CreateStep]_vars

C18_AddressRejected ==
    /\ CreateReplied("error")
    /\ trace[1].by = "direct"
    /\ trace[1].data = InvalidUrl
    /\ subscription # NoSub
    /\ terminationTime # NoTime

Categories ==
    {"motion", "face", "person", "vehicle", "animal", "license_plate", "tamper", "analytics",
     "ptz", "audio", "recording", "digital_input", "relay", "device", "unknown"}

Priority ==
    <<"face", "person", "vehicle", "animal", "license_plate", "motion", "tamper", "audio",
      "digital_input", "relay", "ptz", "recording", "analytics", "device">>

\* the patterns of each group, as substrings of the lower-cased topic
Patterns ==
    [face |-> {<<"face", "detect">>},
     person |-> {<<"people", "detect">>, <<"person", "detect">>, <<"human", "detect">>},
     vehicle |-> {<<"vehicle", "detect">>, <<"car", "detect">>},
     animal |-> {<<"dogcat", "detect">>, <<"animal", "detect">>, <<"pet", "detect">>},
     license_plate |-> {<<"license", "plate">>, <<"anpr">>},
     motion |-> {<<"motion", "detect">>, <<"cell", "motion">>, <<"line", "detect">>,
                 <<"field", "detect">>, <<"motion", "alarm">>},
     tamper |-> {<<"image", "too", "blurry">>, <<"image", "too", "dark">>,
                 <<"image", "too", "bright">>, <<"global", "scene", "change">>, <<"tamper">>},
     audio |-> {<<"audio", "analytics">>, <<"audio", "detect">>},
     digital_input |-> {<<"digital", "input">>},
     relay |-> {<<"relay">>},
     ptz |-> {<<"ptz", "controller">>, <<"ptz", "status">>},
     recording |-> {<<"recording">>},
     analytics |-> {<<"analytics">>},
     device |-> {<<"device", "/">>}]

MatchesGroup(topic, k) == \E p \in Patterns[Priority[k]] : Includes(ToLowerCase(topic), p)

\* the earliest group of Priority one of whose patterns the topic contains
FirstGroup(topic) ==
    IF \E k \in DOMAIN Priority : MatchesGroup(topic, k)
    THEN Priority[CHOOSE k \in DOMAIN Priority :
                      /\ MatchesGroup(topic, k)
                      /\ \A j \in 1..(k - 1) : ~MatchesGroup(topic, j)]
    ELSE "unknown"

Classified == Len(trace) = 2 /\ trace[1].kind = "call" /\ trace[1].op = "categorizeEvent"

\* C19: categorizeEvent returns, for every topic, exactly one of the 15
\* categories: the earliest group in the order face, person, vehicle, animal,
\* license_plate, motion, tamper, audio, digital_input, relay, ptz, recording,
\* analytics, device one of whose patterns the topic contains, whatever the
\* letter case, and unknown when it contains none.
C19_ClassifyByPriority ==
    /\ Cardinality(Categories) = 15
    /\ Classified =>
           LET topic == trace[1].arg
               category == trace[2].value
           IN  /\ category \in Categories
               /\ category = FirstGroup(topic)
               /\ \A other \in Topics :
                      ToLowerCase(other) = ToLowerCase(topic) =>
                          categorizeEvent(other) = category

C19_FaceBeforeAnalytics ==
    /\ Classified
    /\ trace[1].arg = <<"Video", "Analytics", "/", "Face", "Detect", "ion">>
    /\ trace[2].value = "face"

Parsed == Len(trace) = 2 /\ trace[1].kind = "call" /\ trace[1].op = "parseMotionEvent"

\* the items of the message named IsMotion or State, in any letter case
MotionItems(message) ==
    {i \in DOMAIN message.data : message.data[i].name \in {"IsMotion", "State", "STATE"}}

\* C20: for a message whose topic classifies as motion, parseMotionEvent
\* returns isMotion = true iff the data item named IsMotion or State, in any
\* letter case, has the value true, "true" or "1" (the last such item when
\* there are several), and false for any other value and when there is no
\* such item; for any other message it returns undefined and throws nothing.
C20_MotionExtractor ==
    Parsed =>
        LET message == trace[1].arg
            result == trace[2].value
            items == MotionItems(message)
            last == CHOOSE i \in items : \A j \in items : j <= i
        IN  IF message.topic # NoTopic /\ categorizeEvent(message.topic) = "motion"
            THEN /\ result.defined
                 /\ result.isMotion =
                        /\ items # {}
                        /\ message.data[last].value \in {Bool("true"), Str("true"), Str("1")}
            ELSE result = [defined |-> FALSE]

C20_UpperCaseStateIsTrue ==
    /\ Parsed
    /\ trace[1].arg.topic = MotionTopic
    /\ trace[1].arg.data = <<[name |-> "Rule", value |-> Str("0")],
                             [name |-> "STATE", value |-> Str("1")]>>
    /\ trace[2].value = [defined |-> TRUE, isMotion |-> TRUE]

Range(list) == {list[i] : i \in DOMAIN list}

CalledGetAll ==
    Len(trace) = 2 /\ trace[1].kind = "call" /\ trace[1].op = "getAllSupportedDetectionTypes"

\* C21: getAllSupportedDetectionTypes(properties, observed) holds exactly the
\* categories of getSupportedDetectionTypes(properties) and of observed, each
\* once, also when observed repeats a category.
C21_UnionWithoutDuplicates ==
    CalledGetAll =>
        LET static == getSupportedDetectionTypes(trace[1].arg.properties)
            observed == trace[1].arg.observed
            result == trace[2].value
        IN  /\ Range(result) = Range(static) \cup Range(observed)
            /\ \A i, j \in DOMAIN result : result[i] = result[j] => i = j

C21_MotionThenFace ==
    /\ CalledGetAll
    /\ getSupportedDetectionTypes(trace[1].arg.properties) = <<"motion">>
    /\ trace[1].arg.observed = <<"motion", "face", "face">>
    /\ trace[2].value = <<"motion", "face">>

CalledGetSupported ==
    Len(trace) = 2 /\ trace[1].kind = "call" /\ trace[1].op = "getSupportedDetectionTypes"

DetectionCategories ==
    {"motion", "face", "person", "vehicle", "animal", "license_plate", "audio"}

ContainsClassifierPattern(t, c) == \E p \in Patterns[c] : Includes(ToLowerCase(t), p)

\* the patterns the static inference has and the classifier has not
ExtraPatterns ==
    [c \in DetectionCategories |->
        IF c \in {"face", "person", "vehicle", "animal"} THEN {<<"my", "rule", "detector">>}
        ELSE IF c = "audio" THEN {<<"sound", "detect">>}
        ELSE {}]

\* C29 as stated: for a topic set that advertises a single topic t,
\* getSupportedDetectionTypes contains a detection category only if t contains
\* a classifier pattern of that category.
C29_SamePatternTables ==
    CalledGetSupported =>
        \A c \in Range(trace[2].value) :
            /\ c \in DetectionCategories
            /\ trace[1].arg.topicSet # NoTopic
            /\ ContainsClassifierPattern(trace[1].arg.topicSet, c)

\* C29, amended: getSupportedDetectionTypes contains a detection category only
\* if t contains a classifier pattern of that category, or contains
\* myruledetector and the category is face, person, vehicle or animal, or
\* contains sounddetect and the category is audio.
C29_PatternTablesWithExtras ==
    CalledGetSupported =>
        \A c \in Range(trace[2].value) :
            /\ c \in DetectionCategories
            /\ trace[1].arg.topicSet # NoTopic
            /\ \/ ContainsClassifierPattern(trace[1].arg.topicSet, c)
               \/ \E p \in ExtraPatterns[c] : Includes(ToLowerCase(trace[1].arg.topicSet), p)

C29_MyRuleDetectorAdvertised ==
    /\ CalledGetSupported
    /\ trace[1].arg.topicSet = <<"RuleEngine", "/", "My", "Rule", "Detector", "/", "Motion">>
    /\ trace[2].value = <<"face", "person", "vehicle", "animal">>

\* every `event` signal is one message of the pull reply that began the
\* segment, each message once and in pull order, handed to whoever is attached
\* at that moment
C22_EmittedOnceInOrder ==
    /\ Emits("event") # {} => LastReply("loop", "pull", "ok")
    /\ LastReply("loop", "pull", "ok") =>
           /\ Emits("event") = 2..(Len(trace[1].data) + 1)
           /\ \A i \in Emits("event") :
                  /\ trace[i].payload = trace[1].data[i - 1]
                  /\ trace[i].delivered = listeners["event"]

\* attaching or detaching a consumer emits nothing
C22_NothingReplayed == listeners' # listeners => Emits("event")' = {}

\* C22: an `event` signal emitted while no consumer is attached is lost, a
\* consumer that attaches later is handed no message of an earlier pull, and a
\* consumer attached at emission time is handed each message of a pull once,
\* in pull order.
C22_NoReplay == []C22_EmittedOnceInOrder /\ [][C22_NothingReplayed]_vars

\* a consumer has just attached, after a motion message was pulled while the
\* loop still polls
C22_AttachedAfterMotion ==
    /\ listeners["event"]
    /\ trace = <<>>
    /\ "motion" \in observedCategories
    /\ Awaiting("renew") # {}

\* the loop began an iteration in the last segment: it sent create or pull,
\* and the pull is not the one that follows a successful create
IterationBegun ==
    /\ trace # <<>>
    /\ ~LastReply("loop", "create", "ok")
    /\ Sends("loop", {"create", "pull"}) # {}

MustCreate == subscription = NoSub \/ terminationTime = NoTime \/ now > terminationTime

\* C23: at the top of each loop iteration createPullPointSubscription is
\* called if and only if the session has no subscription, or no recorded
\* deadline, or the local clock is past the deadline; otherwise the iteration
\* goes straight to pullMessages on the existing subscription.
C23_CreateIffNeeded ==
    IterationBegun =>
        /\ Cardinality(Sends("loop", {"create", "pull"})) = 1
        /\ Sends("loop", {"create"}) # {} <=> MustCreate
        /\ \A i \in Sends("loop", {"pull"}) :
               /\ trace[i].to = subscription.addr
               /\ trace[i].sid = subscription.sid

\* after a renew reply the loop pulls again on the subscription it has
C23_PullsAgain ==
    /\ LastReply("loop", "renew", "ok")
    /\ Sends("loop", {"pull"}) # {}
    /\ subscription # NoSub
    /\ now <= terminationTime

LoopFailed == LastReply("loop", "create", "error") \/ LastReply("loop", "pull", "error")

RetryableFailure == LoopFailed /\ isRetryableError(trace[1].data)

C24_SleepsOldDelay ==
    RetryableFailure =>
        /\ Cardinality(Emits("error")) = 1
        /\ \E i \in DOMAIN trace :
               /\ trace[i].kind = "sleep"
               /\ trace[i].ms = reconnectMs
               /\ \A j \in Emits("error") : j < i
        /\ Awaiting("sleep") # {}
        /\ \A i \in DOMAIN trace : trace[i].kind = "send" => trace[i].op # "unsub"

C24_RetryableStep ==
    /\ RetryableFailure' =>
           /\ subscription' = subscription
           /\ terminationTime' = terminationTime
           /\ reconnectMs' = reconnectMs
    /\ LastReply("loop", "sleep", "ok")' => Grows(reconnectMs, reconnectMs')

\* C24: when create or pull fails in the loop with a retryable failure, the
\* loop emits `error`, sleeps for the retry delay as it was before the
\* failure, only then multiplies the delay by 1.5 (capped at 120000 ms), sends
\* no Unsubscribe request, and leaves the subscription and the deadline
\* unchanged.
C24_RetryableBacksOff == []C24_SleepsOldDelay /\ [][C24_RetryableStep]_vars

NonRetryableFailure == LoopFailed /\ ~isRetryableError(trace[1].data)

C25_UnsubscribesAndRecreates ==
    /\ NonRetryableFailure =>
           /\ Cardinality(Emits("error")) = 1
           /\ ~Has("sleep")
           /\ IF subscription = NoSub
              THEN /\ terminationTime = NoTime
                   /\ shouldPoll => Sends("loop", {"create"}) # {}
              ELSE Sends("loop", {"unsub"}) # {}
    /\ (LastReply("loop", "unsub", "ok") \/ LastReply("loop", "unsub", "error")) =>
           /\ subscription = NoSub
           /\ terminationTime = NoTime
           /\ shouldPoll => Sends("loop", {"create"}) # {}

C25_NonRetryableStep ==
    (NonRetryableFailure' \/ LastReply("loop", "unsub", "ok")'
        \/ LastReply("loop", "unsub", "error")') => reconnectMs' = reconnectMs

\* C25: when create or pull fails in the loop with a non-retryable failure,
\* the loop emits `error`, performs a best-effort unsubscribe that leaves the
\* session with no subscription and no deadline, leaves the retry delay
\* unchanged, and, if still polling, begins the next iteration with
\* createPullPointSubscription.
C25_NonRetryableRecreates == []C25_UnsubscribesAndRecreates /\ [][C25_NonRetryableStep]_vars

\* the loop's renew was answered, and not by a reply with both times
RenewFailed ==
    \/ LastReply("loop", "renew", "error")
    \/ LastReply("loop", "renew", "untimed")

C26_Swallowed ==
    /\ RenewFailed =>
           /\ Emits("error") = {}
           /\ ~Has("sleep")
           /\ ~Has("uncaught")
           /\ \A i \in DOMAIN trace : trace[i].kind = "send" => trace[i].op # "unsub"
           /\ IF shouldPoll THEN Sends("loop", {"create", "pull"}) # {} ELSE Has("exit")
    /\ LastReply("loop", "renew", "ok") =>
           \E i \in DOMAIN trace : trace[i].kind = "deadline" /\ trace[i].value = terminationTime

C26_RenewFailureStep ==
    RenewFailed' =>
        /\ subscription' = subscription
        /\ terminationTime' = terminationTime
        /\ reconnectMs' = reconnectMs

\* C26: a renew failure inside the loop (a network failure of any kind, or a
\* malformed reply) is swallowed: no `error` signal, no change of the
\* subscription, of the deadline computed from the preceding pull or of the
\* retry delay, no sleep and no unsubscribe, and the loop proceeds to its next
\* iteration; on renew success the deadline is recomputed from the renew
\* result.
C26_RenewFailureSwallowed == []C26_Swallowed /\ [][C26_RenewFailureStep]_vars

Requested == Len(trace) = 2 /\ trace[2].kind = "request"

\* C27: pullMessages, renew and unsubscribe send their request to the current
\* subscription's own reference address, the addressing header carries the
\* SubscriptionId element if and only if the subscription has a
\* subscriptionId, and the Security element is there if and only if both
\* username and password are configured.
C27_FollowUpEnvelope ==
    Requested =>
        LET onvif == trace[1].arg
            request == trace[2]
        IN  /\ request.url = subscription.addr
            /\ request.url # NoSub.addr
            /\ request.body.to.href = subscription.addr
            /\ request.body.subscriptionId # <<>> <=> subscription.sid
            /\ request.body.security # <<>> <=>
                   (onvif.username # "" /\ onvif.password # "")

C27_IdWithoutPassword ==
    /\ Requested
    /\ trace[1].op = "renew"
    /\ subscription.sid
    /\ trace[1].arg = [username |-> "admin", password |-> ""]
    /\ trace[2].body.subscriptionId # <<>>
    /\ trace[2].body.security = <<>>

\* C28: when several simple items of a message match the alias set of the
\* same field (an IsMotion item and a State item), the value of the first
\* matching item in sequence order determines the field.
C28_FirstMatchWins ==
    Parsed =>
        LET message == trace[1].arg
            result == trace[2].value
            items == MotionItems(message)
            first == CHOOSE i \in items : \A j \in items : i <= j
        IN  (result.defined /\ items # {}) =>
                result.isMotion =
                    (message.data[first].value \in {Bool("true"), Str("true"), Str("1")})

\* C30: after any sequence of startEventLoop and stopEventLoop calls,
\* including stopEventLoop followed at once by startEventLoop while an
\* operation of the previous loop is still in flight, at most one instance of
\* the polling loop is active for the session.
C30_OneLoopInstance == shouldPoll => Count("loop") <= 1

\* nothing of the session is suspended: the loop has exited and every request
\* and sleep has completed
Quiescent == tasks = EmptyBag

\* C31: once stopEventLoop has been called with no later startEventLoop, the
\* loop has exited and every pending operation has completed, the session
\* holds no subscription.
C31_StoppedHoldsNoSubscription ==
    (~shouldPoll /\ Quiescent) => subscription = NoSub

\* C32: in every reachable state, if the session has no current subscription
\* then it has no recorded local termination deadline, under any interleaving
\* of the loop with stopEventLoop's background unsubscribe.
C32_NoDeadlineWithoutSubscription ==
    subscription = NoSub => terminationTime = NoTime

UnsubscribeCompleted ==
    trace # <<>> /\ trace[1].kind = "reply" /\ trace[1].op = "unsub"

\* an Unsubscribe completes although none in flight was sent for the
\* subscription the session holds
C33_ForeignUnsubscribeStep ==
    (/\ UnsubscribeCompleted'
     /\ subscription # NoSub
     /\ \A t \in Awaiting("unsub") : t.to # subscription.addr) =>
        /\ subscription' = subscription
        /\ terminationTime' = terminationTime

\* C33: an unsubscribe clears only the subscription for which it sent the
\* Unsubscribe request: if a new subscription is created while that request
\* is in flight, the completion of the unsubscribe removes neither the newer
\* subscription nor its deadline.
C33_ClearsOnlyItsOwn == [][C33_ForeignUnsubscribeStep]_vars

\* isRunning(): the getter returns shouldPoll
isRunning == shouldPoll

\* C34: whenever isRunning is true a polling loop is active: there is no
\* reachable state in which isRunning is true while the loop has exited.
C34_RunningMeansLoopActive == isRunning => Count("loop") >= 1

\* the loop sent create or pull in the segment of a failure, without a sleep,
\* and that request failed in turn
C35_RetriedAtOnceStep ==
    ~(/\ LoopFailed
      /\ ~Has("sleep")
      /\ Sends("loop", {"create", "pull"}) # {}
      /\ LoopFailed')

\* C35: the loop never retries without waiting: between two consecutive
\* failed create or pull requests of the loop with no successful operation in
\* between, the loop sleeps at least once, for retryable and non-retryable
\* failures alike.
C35_SleepsBetweenFailures == [][C35_RetriedAtOnceStep]_vars

\* C36: after stopEventLoop has been called with no later startEventLoop, no
\* further `event` signal is emitted to consumers, even if a pull that was in
\* flight at the time of the call later returns messages.
C36_NoEventAfterStop ==
    ~shouldPoll => \A i \in Emits("event") : ~trace[i].delivered

\* C37: if stopEventLoop is called and startEventLoop is not called
\* afterwards, the polling loop eventually exits, provided every in-flight
\* network operation and every retry sleep eventually completes.
C37_StoppedLoopExits == ~shouldPoll ~> (shouldPoll \/ Count("loop") = 0)

\* the loop found itself stopped after a sleep and returned
C37_ExitedAfterSleep ==
    /\ ~shouldPoll
    /\ Count("loop") = 0
    /\ LastReply("loop", "sleep", "ok")
    /\ Has("exit")

Fetched(name) == LastCall(name) /\ Len(trace) = 3 /\ trace[3].kind = "return"

\* C38: after a successful getDNS the DNS property returns the DNS
\* information fetched by that call, and after a successful getNTP the NTP
\* property returns the NTP information fetched by that call.
C38_CachedProperties ==
    /\ Fetched("getDNS") => DNS = trace[3].value
    /\ Fetched("getNTP") => NTP = trace[3].value

\* C39: the cached videoSources reflects the latest GetVideoSources reply:
\* after a successful getVideoSources the cache holds exactly the sources of
\* that reply, each of them once.
C39_CacheIsLatestReply ==
    Fetched("getVideoSources") => videoSources = trace[3].value.items

====
